---- MODULE Spec2Model ----
(***************************************************************************)
(* Model of the bug-report client library.  The repository holds five      *)
(* variants of the BugReportClient class; the model carries all of them    *)
(* and `variant` says which one a client was built from:                   *)
(*   "v1"  src/src/client/index.ts   1-119  (appName; submit, get)         *)
(*   "v2"  src/src/client/index.ts 121-317  (appName; + stream progress,   *)
(*                                           tags)                         *)
(*   "v3"  src/src/client/index.ts 319-531  (handleResponse, CORS options, *)
(*                                           file upload)                  *)
(*   "v4"  src/unnamed/part_000     10-404  (/api prefix, stream progress, *)
(*                                           file upload)                  *)
(*   "v5"  src/unnamed/part_001      1-419  (credentials schema, XHR       *)
(*                                           progress, file upload)        *)
(* Strings are TLA+ strings, JavaScript objects are functions from their   *)
(* keys, and a key that is missing is a key outside the DOMAIN.            *)
(***************************************************************************)
EXTENDS Integers, Sequences, FiniteSets, TLC

VARIABLES variant, status, options, ctorError, apiUrl, headers, calls

vars == <<variant, status, options, ctorError, apiUrl, headers, calls>>

Variants == {"v1", "v2", "v3", "v4", "v5"}

(***************************************************************************)
(* JavaScript helpers.                                                     *)
(***************************************************************************)
Empty == [k \in {} |-> ""]

Has(o, k) == k \in DOMAIN o

\* !o.k for a string-valued key: true when the key is missing or ""
Falsy(o, k) == ~Has(o, k) \/ o[k] = ""

\* { ...a, ...b }
Spread(a, b) ==
  [k \in DOMAIN a \cup DOMAIN b |-> IF k \in DOMAIN b THEN b[k] ELSE a[k]]

\* const { [k]: _, ...rest } = o
Without(o, k) == [j \in DOMAIN o \ {k} |-> o[j]]

\* o.k ?? d
OrElse(o, k, d) == IF Has(o, k) THEN o[k] ELSE d

StartsWith(s, p) == Len(s) >= Len(p) /\ SubSeq(s, 1, Len(p)) = p

Contains(s, p) ==
  \E i \in 1..(Len(s) - Len(p) + 1) : SubSeq(s, i, i + Len(p) - 1) = p

(***************************************************************************)
(* Errors (src/src/errors/index.ts).  An error is its class and message.   *)
(***************************************************************************)
NoError == [type |-> "none", message |-> ""]

Error(message) == [type |-> "Error", message |-> message]

\* the message without the server's code
ApiBugReportErrorNoCode(errorData) ==
  [type |-> "ApiBugReportError", message |-> "API Error: " \o errorData.message]

ApiBugReportError(errorData) ==
  [type |-> "ApiBugReportError",
   message |-> "API Error [" \o ToString(errorData.code) \o "]: "
               \o errorData.message]

NotFoundBugReportError(errorData) ==
  [type |-> "NotFoundBugReportError",
   message |-> "Not Found Error [" \o ToString(errorData.code) \o "]: "
               \o errorData.message]

\* imported by v5 from ../errors; built like the other client errors
AppCredentialTypeError(message) ==
  [type |-> "AppCredentialTypeError", message |-> message]

(***************************************************************************)
(* AppCredentialsSchema (zod): appUrl a URL, appKey and appSecret strings  *)
(* of at least MinCredentialLen characters.  The result is the list of     *)
(* failing paths; <<>> when the value parses.                              *)
(***************************************************************************)
MinCredentialLen == 5

\* z.string().url(): an absolute URL, that is a non-empty scheme before ":"
IsUrl(s) == \E i \in 2..Len(s) : SubSeq(s, i, i) = ":"

AppCredentialsIssues(v) ==
  (IF Has(v, "appUrl") /\ IsUrl(v.appUrl) THEN <<>> ELSE <<"appUrl">>)
  \o (IF Has(v, "appKey") /\ Len(v.appKey) >= MinCredentialLen
      THEN <<>> ELSE <<"appKey">>)
  \o (IF Has(v, "appSecret") /\ Len(v.appSecret) >= MinCredentialLen
      THEN <<>> ELSE <<"appSecret">>)

RECURSIVE JoinPaths(_)
JoinPaths(ps) ==
  IF ps = <<>> THEN ""
  ELSE IF Len(ps) = 1 THEN ps[1]
  ELSE ps[1] \o "," \o JoinPaths(Tail(ps))

\* `${error}` of a ZodError: its name and the issues it lists
ZodErrorText(issues) == "ZodError: " \o JoinPaths(issues)

(***************************************************************************)
(* The constructor.  Its result is either the error it throws or the       *)
(* stored base URL and headers.                                            *)
(***************************************************************************)
\* the object handed to AppCredentialsSchema.parse; a missing option is a
\* key whose value is undefined, which fails z.string()
CredentialsOf(o) ==
  [k \in {j \in {"appUrl", "appKey", "appSecret"} :
            Has(o, IF j = "appUrl" THEN "apiUrl" ELSE j)}
     |-> o[IF k = "appUrl" THEN "apiUrl" ELSE k]]

\* the constructor with the check of appSecret left out
ConstructorErrorNoSecret(v, o) ==
  IF v = "v5"
  THEN IF AppCredentialsIssues(
            Spread(CredentialsOf(o), [k \in {"appSecret"} |-> "secret"])) # <<>>
       THEN AppCredentialTypeError(
              "Failed to initialize BugReportClient: "
              \o ZodErrorText(AppCredentialsIssues(CredentialsOf(o))))
       ELSE NoError
  ELSE IF Falsy(o, "apiUrl") THEN Error("API URL is required")
  ELSE IF (v \in {"v1", "v2"} /\ Falsy(o, "appName")) \/ Falsy(o, "appKey")
  THEN Error("App credentials (App Name, App Key, App Secret) are required")
  ELSE NoError

ConstructorError(v, o) ==
  IF v = "v5"
  THEN IF AppCredentialsIssues(CredentialsOf(o)) # <<>>
       THEN AppCredentialTypeError(
              "Failed to initialize BugReportClient: "
              \o ZodErrorText(AppCredentialsIssues(CredentialsOf(o))))
       ELSE NoError
  ELSE IF Falsy(o, "apiUrl") THEN Error("API URL is required")
  ELSE IF v \in {"v1", "v2"}
          /\ (Falsy(o, "appName") \/ Falsy(o, "appKey") \/ Falsy(o, "appSecret"))
  THEN Error("App credentials (App Name, App Key, App Secret) are required")
  ELSE IF v \in {"v3", "v4"} /\ (Falsy(o, "appKey") \/ Falsy(o, "appSecret"))
  THEN IF v = "v3"
       THEN Error("App credentials (App Key, App Secret) are required")
       ELSE Error("App credentials (App Name, App Key, App Secret) are required")
  ELSE NoError

DefaultHeaders(v, o) ==
  IF v \in {"v1", "v2"}
  THEN [k \in {"Content-Type", "X-App-Name", "X-App-Key", "Authorization"} |->
          CASE k = "Content-Type" -> "application/json"
            [] k = "X-App-Name" -> o.appName
            [] k = "X-App-Key" -> o.appKey
            [] OTHER -> "Bearer " \o o.appSecret]
  ELSE IF v \in {"v3", "v4"}
  THEN [k \in {"Content-Type", "X-App-Key", "Authorization"} |->
          CASE k = "Content-Type" -> "application/json"
            [] k = "X-App-Key" -> o.appKey
            [] OTHER -> "Bearer " \o o.appSecret]
  ELSE [k \in {"X-App-Key", "Authorization"} |->
          CASE k = "X-App-Key" -> o.appKey
            [] OTHER -> "Bearer " \o o.appSecret]

\* the constructor with the custom headers spread before the defaults
ConstructorHeadersDefaultsLast(v, o) ==
  Spread(OrElse(o, "headers", Empty), DefaultHeaders(v, o))

ConstructorHeaders(v, o) == Spread(DefaultHeaders(v, o), OrElse(o, "headers", Empty))

(***************************************************************************)
(* Report schemas (zod).  v1 and v2 are written against the types with     *)
(* image/metadata and a non-empty tag list (index.ts 618-675); v3, v4 and  *)
(* v5 against the types with the file list (index.ts 533-616).  A report   *)
(* is a function from its keys; tags is a sequence of strings, file a      *)
(* sequence of [kind |-> "string", ...] or [kind |-> "File", ...] values,  *)
(* createdAt a Date, held as its time value.  Each schema gives the list   *)
(* of failing paths.                                                       *)
(***************************************************************************)
TitleMax == 200

BugSeverity == {"LOW", "MEDIUM", "HIGH", "CRITICAL"}

BugTagSchema ==
  {"UI", "FUNCTIONALITY", "PERFORMANCE", "SECURITY", "CRASH", "NETWORK",
   "DATABASE", "OTHER"}

FileTypes == {"image/png", "image/jpeg", "image/jpg"}

IsBugTag(t) == t \in BugTagSchema

IsStringItem(f) == f.kind = "string"

IsImageFile(f) == f.kind = "File" /\ f.type \in FileTypes

\* the shared rules with a title limit one character short
CommonIssuesShortTitle(r, minTags) ==
  (IF Has(r, "title") /\ Len(r.title) >= 1 /\ Len(r.title) < TitleMax
   THEN <<>> ELSE <<"title">>)
  \o (IF Has(r, "description") /\ Len(r.description) >= 1
      THEN <<>> ELSE <<"description">>)
  \o (IF Has(r, "severity") /\ r.severity \in BugSeverity
      THEN <<>> ELSE <<"severity">>)
  \o (IF Has(r, "tags") /\ Len(r.tags) >= minTags
         /\ (\A i \in 1..Len(r.tags) : IsBugTag(r.tags[i]))
      THEN <<>> ELSE <<"tags">>)

\* title, description, severity, tags: shared by the three schemas;
\* minTags is the .min() of the tag array
CommonIssues(r, minTags) ==
  (IF Has(r, "title") /\ Len(r.title) >= 1 /\ Len(r.title) <= TitleMax
   THEN <<>> ELSE <<"title">>)
  \o (IF Has(r, "description") /\ Len(r.description) >= 1
      THEN <<>> ELSE <<"description">>)
  \o (IF Has(r, "severity") /\ r.severity \in BugSeverity
      THEN <<>> ELSE <<"severity">>)
  \o (IF Has(r, "tags") /\ Len(r.tags) >= minTags /\ (\A i \in 1..Len(r.tags) : IsBugTag(r.tags[i]))
      THEN <<>> ELSE <<"tags">>)

\* BugReportSchema of index.ts 640-648 (v1, v2)
BugReportSchemaImage(r) == CommonIssues(r, 1)

\* BugReportSchema of index.ts 555-562 (v3, v4, v5)
BugReportSchemaFiles(r) ==
  CommonIssues(r, 0)
  \o (IF Has(r, "file") /\ (\E i \in 1..Len(r.file) : ~IsStringItem(r.file[i]))
      THEN <<"file">> ELSE <<>>)

BugReportSchema(v, r) ==
  IF v \in {"v1", "v2"} THEN BugReportSchemaImage(r) ELSE BugReportSchemaFiles(r)

\* BugReportFileSchema of index.ts 564-581
BugReportFileSchema(r) ==
  CommonIssues(r, 0)
  \o (IF Has(r, "file") /\ (\A i \in 1..Len(r.file) : IsImageFile(r.file[i]))
      THEN <<>> ELSE <<"file">>)

\* the error of the catch block around the schema's parse
InvalidReportError(issues) ==
  Error("Invalid bug report data: " \o ZodErrorText(issues))

(***************************************************************************)
(* Requests.  A request is what the operation hands to the transport.      *)
(***************************************************************************)
\* Date.prototype.toJSON of a time value 0..9 (an ISO-8601 string)
ToISOString(t) == "1970-01-01T00:00:00.00" \o ToString(t) \o "Z"

\* JSON.stringify of an item of report.file: a string stays, a File has no
\* enumerable property and becomes {}
JsonOfItem(f) == IF f.kind = "string" THEN f ELSE [kind |-> "object"]

\* the body stamped with the time of the request even when the report
\* has a createdAt
JsonOfReportAlwaysNow(r, now) ==
  [k \in DOMAIN r \cup {"createdAt"} |->
     CASE k = "createdAt" -> [kind |-> "string", text |-> ToISOString(now)]
       [] k = "file" -> [kind |-> "array",
                         items |-> [i \in 1..Len(r.file) |-> JsonOfItem(r.file[i])]]
       [] k = "tags" -> [kind |-> "array", items |-> r.tags]
       [] k = "metadata" -> [kind |-> "object", fields |-> r.metadata]
       [] OTHER -> [kind |-> "string", text |-> r[k]]]

\* JSON.stringify({ ...report, createdAt: report.createdAt ?? new Date() }),
\* `now` being the value of new Date(); held as the value the text denotes
JsonOfReport(r, now) ==
  [k \in DOMAIN r \cup {"createdAt"} |->
     CASE k = "createdAt" -> [kind |-> "string",
                              text |-> ToISOString(OrElse(r, "createdAt", now))]
       [] k = "file" -> [kind |-> "array",
                         items |-> [i \in 1..Len(r.file) |-> JsonOfItem(r.file[i])]]
       [] k = "tags" -> [kind |-> "array", items |-> r.tags]
       [] k = "metadata" -> [kind |-> "object", fields |-> r.metadata]
       [] OTHER -> [kind |-> "string", text |-> r[k]]]

\* new TextEncoder().encode(body).length, counted on the report's strings
\* (the sample reports are ASCII: one byte per character)
EncodedLength(r) ==
  Len(r.title) + Len(r.description) + Len(r.severity) + Len(r.tags)

\* the FormData with the files appended before the text fields
FormDataOfFilesFirst(r) ==
  [i \in 1..Len(r.file) |-> [name |-> "file", value |-> r.file[i]]]
  \o <<[name |-> "title", value |-> [kind |-> "string", text |-> r.title]],
       [name |-> "description", value |-> [kind |-> "string", text |-> r.description]],
       [name |-> "severity", value |-> [kind |-> "string", text |-> r.severity]],
       [name |-> "tags", value |-> [kind |-> "json", items |-> r.tags]]>>

\* the FormData of the multipart operations, in append order
FormDataOf(r) ==
  <<[name |-> "title", value |-> [kind |-> "string", text |-> r.title]],
    [name |-> "description", value |-> [kind |-> "string", text |-> r.description]],
    [name |-> "severity", value |-> [kind |-> "string", text |-> r.severity]],
    [name |-> "tags", value |-> [kind |-> "json", items |-> r.tags]]>>
  \o [i \in 1..Len(r.file) |-> [name |-> "file", value |-> r.file[i]]]

\* v4 and v5 put /api before every path
PathPrefix(v) == IF v \in {"v4", "v5"} THEN "/api" ELSE ""

ReportsUrl(v, base) == base \o PathPrefix(v) \o "/bugs/reports"

BugUrl(v, base, id) == base \o PathPrefix(v) \o "/bugs/" \o id

TagsUrl(v, base) == base \o PathPrefix(v) \o "/bugs/tags"

ContentTypeJson == [k \in {"Content-Type"} |-> "application/json"]

ContentTypeForm == [k \in {"Content-Type"} |-> "multipart/form-data"]

\* headers of a request with a JSON body or none (submitBugReport,
\* submitBugReportWithProgress, getBugReport, getBugTags): v5 spreads the
\* stored headers and sets Content-Type, the others pass the stored headers
JsonHeaders(v, h) == IF v = "v5" THEN Spread(h, ContentTypeJson) ELSE h

\* headers of submitBugReportWithFile: v3 drops Content-Type, v4 sets it to
\* multipart/form-data, v5 spreads the stored headers
FileHeaders(v, h) ==
  IF v = "v3" THEN Without(h, "Content-Type")
  ELSE IF v = "v4" THEN Spread(h, ContentTypeForm)
  ELSE h

\* the stored headers replaced by the multipart Content-Type alone
StoredHeadersReplaced(v, h) == IF v = "v4" THEN ContentTypeForm ELSE h

\* this.headers after submitBugReportWithFileProgress has run:
\* v4 assigns this.headers["Content-Type"] before it copies the headers
StoredHeadersAfterFileProgress(v, h) ==
  IF v = "v4" THEN Spread(h, ContentTypeForm) ELSE h

\* headers set on the XMLHttpRequest of submitBugReportWithFileProgress
FileProgressHeaders(v, h) ==
  IF v = "v3" THEN Without(h, "Content-Type")
  ELSE StoredHeadersAfterFileProgress(v, h)

\* v3 sends every fetch with credentials "include" and mode "cors", and its
\* XMLHttpRequest with withCredentials
Credentials(v) == IF v = "v3" THEN "include" ELSE "same-origin"

Request(method, url, h, body, transport, cred) ==
  [method |-> method, url |-> url, headers |-> h, body |-> body,
   transport |-> transport, credentials |-> cred]

NoBody == [kind |-> "none"]

JsonBody(r, now) == [kind |-> "json", value |-> JsonOfReport(r, now)]

FormBody(r) == [kind |-> "form", entries |-> FormDataOf(r)]

(***************************************************************************)
(* Responses.  A body on the wire is JSON text, held as the value it       *)
(* denotes, or text that is not JSON.                                      *)
(***************************************************************************)
JsonText(value) == [json |-> TRUE, value |-> value, text |-> ""]

PlainText(text) == [json |-> FALSE, value |-> Empty, text |-> text]

\* response.json() / JSON.parse(xhr.response)
JsonParse(body) ==
  IF body.json THEN [ok |-> TRUE, value |-> body.value]
  ELSE [ok |-> FALSE, value |-> Empty]

\* what response.json() and JSON.parse throw on text that is not JSON
SyntaxError == [type |-> "SyntaxError", message |-> "Unexpected token in JSON"]

\* what reading errorData.code throws when errorData is undefined
TypeError ==
  [type |-> "TypeError",
   message |-> "Cannot read properties of undefined (reading 'code')"]

\* response.ok, and the test xhr.status >= 200 && xhr.status < 300
Ok(st) == st >= 200 /\ st < 300

\* resolves and rejects count the invocations of the executor's resolve and
\* reject (for an async function, of its return and its throw)
Resolved(value) ==
  [phase |-> "resolved", value |-> value, error |-> NoError,
   resolves |-> 1, rejects |-> 0]

Rejected(error) ==
  [phase |-> "rejected", value |-> Empty, error |-> error,
   resolves |-> 0, rejects |-> 1]

\* the promise stays pending: the load listener threw
Hung(error) ==
  [phase |-> "hung", value |-> Empty, error |-> error,
   resolves |-> 0, rejects |-> 0]

\* new ApiBugReportError(data.meta) with data the parsed body
ThrowApiError(data) ==
  IF Has(data, "meta") THEN ApiBugReportError(data.meta) ELSE TypeError

ThrowNotFoundError(data) ==
  IF Has(data, "meta") THEN NotFoundBugReportError(data.meta) ELSE TypeError

\* handleResponse without its 404 branch
HandleResponseNo404(response) ==
  IF ~Ok(response.status)
  THEN IF ~JsonParse(response.body).ok THEN Rejected(SyntaxError)
       ELSE Rejected(ThrowApiError(JsonParse(response.body).value))
  ELSE IF JsonParse(response.body).ok
       THEN Resolved(JsonParse(response.body).value)
       ELSE Rejected(SyntaxError)

\* handleResponse of v3, and the same code inlined in every getBugReport
HandleResponse(response) ==
  IF ~Ok(response.status)
  THEN IF ~JsonParse(response.body).ok THEN Rejected(SyntaxError)
       ELSE IF response.status = 404
       THEN Rejected(ThrowNotFoundError(JsonParse(response.body).value))
       ELSE Rejected(ThrowApiError(JsonParse(response.body).value))
  ELSE IF JsonParse(response.body).ok
       THEN Resolved(JsonParse(response.body).value)
       ELSE Rejected(SyntaxError)

\* the inlined response code returning the envelope's data instead of the body
ApiErrorResponseUnwraps(response) ==
  IF ~Ok(response.status)
  THEN IF ~JsonParse(response.body).ok THEN Rejected(SyntaxError)
       ELSE Rejected(ThrowApiError(JsonParse(response.body).value))
  ELSE IF JsonParse(response.body).ok
       THEN Resolved(OrElse(JsonParse(response.body).value, "data",
                            JsonParse(response.body).value))
       ELSE Rejected(SyntaxError)

\* the response code inlined in submitBugReport, submitBugReportWithProgress
\* (fetch), submitBugReportWithFile and getBugTags of v1, v2, v4 and v5
ApiErrorResponse(response) ==
  IF ~Ok(response.status)
  THEN IF ~JsonParse(response.body).ok THEN Rejected(SyntaxError)
       ELSE Rejected(ThrowApiError(JsonParse(response.body).value))
  ELSE IF JsonParse(response.body).ok
       THEN Resolved(JsonParse(response.body).value)
       ELSE Rejected(SyntaxError)

\* the load listener without the try/catch around its error branch
FileProgressLoadUncaught(response) ==
  IF Ok(response.status)
  THEN IF JsonParse(response.body).ok
       THEN Resolved(JsonParse(response.body).value)
       ELSE Hung(SyntaxError)
  ELSE IF JsonParse(response.body).ok
       THEN Rejected(ThrowApiError(JsonParse(response.body).value))
       ELSE Hung(SyntaxError)

\* the load listener of submitBugReportWithFileProgress (v3, v4, v5)
FileProgressLoad(response) ==
  IF Ok(response.status)
  THEN IF JsonParse(response.body).ok
       THEN Resolved(JsonParse(response.body).value)
       ELSE Hung(SyntaxError)
  ELSE IF JsonParse(response.body).ok
          /\ Has(JsonParse(response.body).value, "meta")
       THEN Rejected(ApiBugReportError(JsonParse(response.body).value.meta))
       ELSE Rejected(Error("Upload failed with status "
                           \o ToString(response.status)))

\* xhr.onload with its two branches in sequence, not as alternatives: after
\* a 2xx response is resolved the error branch runs as well and rejects
ProgressLoadSettlesTwice(response) ==
  IF Ok(response.status)
  THEN IF JsonParse(response.body).ok
       THEN [Resolved(JsonParse(response.body).value) EXCEPT !.rejects = 1]
       ELSE Rejected(Error("Failed to parse server response"))
  ELSE IF JsonParse(response.body).ok
          /\ Has(JsonParse(response.body).value, "meta")
       THEN Rejected(ApiBugReportError(JsonParse(response.body).value.meta))
       ELSE Rejected(Error("Server returned status "
                           \o ToString(response.status)))

\* xhr.onload rejecting a 404 with NotFoundBugReportError
ProgressLoadNotFound(response) ==
  IF Ok(response.status)
  THEN IF JsonParse(response.body).ok
       THEN Resolved(JsonParse(response.body).value)
       ELSE Rejected(Error("Failed to parse server response"))
  ELSE IF JsonParse(response.body).ok
          /\ Has(JsonParse(response.body).value, "meta")
       THEN IF response.status = 404
            THEN Rejected(NotFoundBugReportError(JsonParse(response.body).value.meta))
            ELSE Rejected(ApiBugReportError(JsonParse(response.body).value.meta))
       ELSE Rejected(Error("Server returned status "
                           \o ToString(response.status)))

\* xhr.onload of submitBugReportWithProgress (v5)
ProgressLoad(response) ==
  IF Ok(response.status)
  THEN IF JsonParse(response.body).ok
       THEN Resolved(JsonParse(response.body).value)
       ELSE Rejected(Error("Failed to parse server response"))
  ELSE IF JsonParse(response.body).ok
          /\ Has(JsonParse(response.body).value, "meta")
       THEN Rejected(ApiBugReportError(JsonParse(response.body).value.meta))
       ELSE Rejected(Error("Server returned status "
                           \o ToString(response.status)))

(***************************************************************************)
(* Upload progress.  A progress value is (loaded / total) * 100, held as   *)
(* a fraction in lowest terms; division by zero gives NaN or Infinity.     *)
(***************************************************************************)
RECURSIVE Gcd(_, _)
Gcd(a, b) == IF b = 0 THEN a ELSE Gcd(b, a % b)

\* the progress value without the division by the total
PercentUnscaled(loaded, total) ==
  [kind |-> "number", num |-> loaded * 100, den |-> 1]

Percent(loaded, total) ==
  IF total = 0
  THEN [kind |-> IF loaded = 0 THEN "NaN" ELSE "Infinity", num |-> 0, den |-> 0]
  ELSE [kind |-> "number",
        num |-> (loaded * 100) \div Gcd(loaded * 100, total),
        den |-> total \div Gcd(loaded * 100, total)]

(***************************************************************************)
(* Inputs.                                                                 *)
(***************************************************************************)
MaxTime == 2

MaxProgress == 2

MaxBytes == 2

\* values of new Date() at the time of a request
Times == 1..MaxTime

Absent == "<absent>"

UrlChoices == {Absent, "", "https://api.test.com"}

NameChoices == {Absent, "", "TestApp"}

KeyChoices == {Absent, "", "test", "test-key"}

SecretChoices == {Absent, "", "test-secret"}

HeaderChoices ==
  {[given |-> FALSE, value |-> Empty],
   [given |-> TRUE, value |-> [k \in {"X-Custom-Header"} |-> "custom-value"]],
   [given |-> TRUE, value |-> [k \in {"Content-Type"} |-> "text/plain"]],
   [given |-> TRUE,
    value |-> [k \in {"X-App-Key", "Authorization"} |->
                 IF k = "X-App-Key" THEN "other-key" ELSE "Basic b3RoZXI="]]}

\* the options object: a choice of Absent leaves the key out
OptionsOf(url, name, key, secret, hs) ==
  [k \in {j \in {"apiUrl", "appName", "appKey", "appSecret", "headers"} :
            CASE j = "apiUrl" -> url # Absent
              [] j = "appName" -> name # Absent
              [] j = "appKey" -> key # Absent
              [] j = "appSecret" -> secret # Absent
              [] OTHER -> hs.given} |->
     CASE k = "apiUrl" -> url
       [] k = "appName" -> name
       [] k = "appKey" -> key
       [] k = "appSecret" -> secret
       [] OTHER -> hs.value]

BaseReport ==
  [title |-> "Test Bug", description |-> "This is a test bug report",
   severity |-> "HIGH", tags |-> <<"UI", "FUNCTIONALITY">>]

ImageReport ==
  Spread(BaseReport, [image |-> "base64-encoded-image",
                      metadata |-> [browser |-> "Chrome", version |-> "1.0.0"]])

DatedReport == Spread(BaseReport, [createdAt |-> 0])

NoTagsReport == [BaseReport EXCEPT !.tags = <<>>]

PngFile == [kind |-> "File", name |-> "a.png", type |-> "image/png", size |-> 1]

JpegFile == [kind |-> "File", name |-> "b.jpg", type |-> "image/jpeg", size |-> 2]

PdfFile == [kind |-> "File", name |-> "c.pdf", type |-> "application/pdf", size |-> 3]

FileReport == Spread(BaseReport, [file |-> <<PngFile, JpegFile>>])

DatedFileReport == Spread(FileReport, [createdAt |-> 0])

BadFileReport == Spread(BaseReport, [file |-> <<PngFile, PdfFile>>])

\* a report whose file is a list of base64 strings (the documented example)
Base64Report ==
  Spread(BaseReport, [file |-> <<[kind |-> "string", text |-> "base64Image1"]>>])

\* a title of 200 characters, the longest the schemas allow
LongestTitle ==
  LET x10 == "xxxxxxxxxx"
      x50 == x10 \o x10 \o x10 \o x10 \o x10
  IN  x50 \o x50 \o x50 \o x50

MaxTitleReport == [BaseReport EXCEPT !.title = LongestTitle]

\* a title one character too long
LongTitleReport == [BaseReport EXCEPT !.title = LongestTitle \o "x"]

EmptyTitleReport == [BaseReport EXCEPT !.title = ""]

EmptyDescriptionReport == [BaseReport EXCEPT !.description = ""]

BadTagReport == [BaseReport EXCEPT !.tags = <<"UI", "URGENT">>]

\* the invalid report of the test suite
InvalidReport == [title |-> "", description |-> "", severity |-> "INVALID"]

BadSeverityReport == [BaseReport EXCEPT !.severity = "INVALID"]

Reports ==
  {BaseReport, ImageReport, DatedReport, NoTagsReport, FileReport,
   DatedFileReport, BadFileReport, Base64Report, InvalidReport,
   BadSeverityReport, MaxTitleReport, LongTitleReport, EmptyTitleReport,
   EmptyDescriptionReport, BadTagReport}

Ids == {"123", "tags", "reports"}

Statuses == {200, 299, 300, 404, 500}

SuccessEnvelope ==
  [meta |-> [code |-> 200, status |-> "success", message |-> "Bug report submitted"],
   data |-> [id |-> "123", status |-> "SUBMITTED"]]

ErrorEnvelope(code, message) ==
  [meta |-> [code |-> code, status |-> "error", message |-> message]]

Bodies ==
  {JsonText(SuccessEnvelope),
   JsonText(ErrorEnvelope(404, "Bug report not found")),
   JsonText(ErrorEnvelope(500, "Internal Server Error")),
   JsonText([error |-> "Bad Gateway"]),
   PlainText("<html>Service Unavailable</html>")}

\* what the transport reports when it fails without a response: the message
\* of the runtime's fetch rejection (browser, Node); an XMLHttpRequest error
\* event carries none of it
Causes == {"Failed to fetch", "fetch failed"}

\* upload progress events of a body of MaxBytes bytes; the total of an event
\* whose length is not computable is 0
ProgressEvents ==
  {[lengthComputable |-> lc, loaded |-> l, total |-> IF lc THEN MaxBytes ELSE 0] :
     lc \in BOOLEAN, l \in 0..MaxBytes}

\* the events of an upload that is complete
CompletionEvents == {e \in ProgressEvents : e.loaded = MaxBytes}

(***************************************************************************)
(* Calls.  A call is one invocation of a client operation: the promise it  *)
(* returned (phase, value, error), the requests it issued, the response    *)
(* it got, the upload progress events that arrived and the values it       *)
(* passed to onProgress.                                                   *)
(***************************************************************************)
CallIds == {1, 2}

Operations(v) ==
  CASE v = "v1" -> {"submitBugReport", "getBugReport"}
    [] v = "v2" -> {"submitBugReport", "submitBugReportWithProgress",
                    "getBugReport", "getBugTags"}
    [] v = "v3" -> {"submitBugReport", "submitBugReportWithFile",
                    "submitBugReportWithFileProgress", "getBugReport",
                    "getBugTags"}
    [] OTHER -> {"submitBugReport", "submitBugReportWithProgress",
                 "submitBugReportWithFile", "submitBugReportWithFileProgress",
                 "getBugReport", "getBugTags"}

NoResponse == [status |-> 0, body |-> PlainText("")]

NoInput == [kind |-> "none"]

IdleCall ==
  [op |-> "none", phase |-> "idle", input |-> NoInput, requests |-> <<>>,
   progress |-> <<>>, loaded |-> 0, total |-> 0, response |-> NoResponse,
   value |-> Empty, error |-> NoError, now |-> 0, cause |-> "", events |-> <<>>,
   resolves |-> 0, rejects |-> 0]

ReportInput(r) == [kind |-> "report", report |-> r]

IdInput(id) == [kind |-> "id", id |-> id]

\* the report validated only after its request has been handed to fetch
InvalidAfterSend(op, input, issues) ==
  [IdleCall EXCEPT !.op = op, !.input = input, !.phase = "rejected",
                   !.error = InvalidReportError(issues), !.rejects = 1,
                   !.requests = <<Request("POST", ReportsUrl(variant, apiUrl),
                                          headers, NoBody, "fetch",
                                          Credentials(variant))>>]

\* the call after its synchronous part: rejected by validation, or pending
\* with its one request handed to the transport
Invalid(op, input, issues) ==
  [IdleCall EXCEPT !.op = op, !.input = input, !.phase = "rejected",
                   !.error = InvalidReportError(issues), !.rejects = 1]

Pending(op, input, request) ==
  [IdleCall EXCEPT !.op = op, !.input = input, !.phase = "pending",
                   !.requests = <<request>>]

\* the promise settled after the request is sent once more when the first
\* try did not get a 2xx response
SettleWithRetry(call, response, outcome) ==
  [call EXCEPT !.response = response, !.phase = outcome.phase,
               !.value = outcome.value, !.error = outcome.error,
               !.resolves = @ + outcome.resolves,
               !.rejects = @ + outcome.rejects,
               !.requests = IF Ok(response.status) THEN @ ELSE @ \o @]

Settle(call, response, outcome) ==
  [call EXCEPT !.response = response, !.phase = outcome.phase,
               !.value = outcome.value, !.error = outcome.error,
               !.resolves = @ + outcome.resolves,
               !.rejects = @ + outcome.rejects]

CanStart(c, op) ==
  /\ status = "ok"
  /\ calls[c].phase = "idle"
  /\ op \in Operations(variant)

(***************************************************************************)
(* Operations.                                                             *)
(***************************************************************************)
Init ==
  /\ variant \in Variants
  /\ status = "new"
  /\ options = Empty
  /\ ctorError = NoError
  /\ apiUrl = ""
  /\ headers = Empty
  /\ calls = [c \in CallIds |-> IdleCall]

\* new BugReportClient(options)
Constructor(o) ==
  /\ status = "new"
  /\ options' = o
  /\ ctorError' = ConstructorError(variant, o)
  /\ IF ConstructorError(variant, o) # NoError
     THEN status' = "threw" /\ UNCHANGED <<apiUrl, headers>>
     ELSE /\ status' = "ok"
          /\ apiUrl' = o.apiUrl
          /\ headers' = ConstructorHeaders(variant, o)
  /\ UNCHANGED <<variant, calls>>

\* submitBugReport(report), up to its await of fetch
SubmitBugReport(c, r, now) ==
  /\ CanStart(c, "submitBugReport")
  /\ calls' = [calls EXCEPT ![c] =
       IF BugReportSchema(variant, r) # <<>>
       THEN Invalid("submitBugReport", ReportInput(r), BugReportSchema(variant, r))
       ELSE [Pending("submitBugReport", ReportInput(r),
               Request("POST", ReportsUrl(variant, apiUrl),
                       JsonHeaders(variant, headers), JsonBody(r, now),
                       "fetch", Credentials(variant)))
             EXCEPT !.now = now]]
  /\ UNCHANGED <<variant, status, options, ctorError, apiUrl, headers>>

\* submitBugReportWithProgress(report, onProgress), up to its await of
\* fetch (v2, v4: the body is a stream piped through the progress
\* transform) or to xhr.send (v5)
SubmitBugReportWithProgress(c, r, now) ==
  /\ CanStart(c, "submitBugReportWithProgress")
  /\ calls' = [calls EXCEPT ![c] =
       IF BugReportSchema(variant, r) # <<>>
       THEN Invalid("submitBugReportWithProgress", ReportInput(r),
                    BugReportSchema(variant, r))
       ELSE [Pending("submitBugReportWithProgress", ReportInput(r),
               Request("POST", ReportsUrl(variant, apiUrl),
                       JsonHeaders(variant, headers), JsonBody(r, now),
                       IF variant = "v5" THEN "xhr" ELSE "fetch-stream",
                       Credentials(variant)))
             EXCEPT !.total = EncodedLength(r), !.now = now]]
  /\ UNCHANGED <<variant, status, options, ctorError, apiUrl, headers>>

\* submitBugReportWithFile(report), up to its await of fetch
SubmitBugReportWithFile(c, r) ==
  /\ CanStart(c, "submitBugReportWithFile")
  /\ calls' = [calls EXCEPT ![c] =
       IF BugReportFileSchema(r) # <<>>
       THEN Invalid("submitBugReportWithFile", ReportInput(r),
                    BugReportFileSchema(r))
       ELSE Pending("submitBugReportWithFile", ReportInput(r),
              Request("POST", ReportsUrl(variant, apiUrl),
                      FileHeaders(variant, headers), FormBody(r),
                      "fetch", Credentials(variant)))]
  /\ UNCHANGED <<variant, status, options, ctorError, apiUrl, headers>>

\* submitBugReportWithFileProgress(report, onProgress), up to xhr.send
SubmitBugReportWithFileProgress(c, r) ==
  /\ CanStart(c, "submitBugReportWithFileProgress")
  /\ IF BugReportFileSchema(r) # <<>>
     THEN /\ calls' = [calls EXCEPT ![c] =
                 Invalid("submitBugReportWithFileProgress", ReportInput(r),
                         BugReportFileSchema(r))]
          /\ UNCHANGED headers
     ELSE /\ calls' = [calls EXCEPT ![c] =
                 Pending("submitBugReportWithFileProgress", ReportInput(r),
                   Request("POST", ReportsUrl(variant, apiUrl),
                           FileProgressHeaders(variant, headers), FormBody(r),
                           "xhr", Credentials(variant)))]
          /\ headers' = StoredHeadersAfterFileProgress(variant, headers)
  /\ UNCHANGED <<variant, status, options, ctorError, apiUrl>>

\* getBugReport(id), up to its await of fetch
GetBugReport(c, id) ==
  /\ CanStart(c, "getBugReport")
  /\ calls' = [calls EXCEPT ![c] =
       Pending("getBugReport", IdInput(id),
         Request("GET", BugUrl(variant, apiUrl, id),
                 JsonHeaders(variant, headers), NoBody, "fetch",
                 Credentials(variant)))]
  /\ UNCHANGED <<variant, status, options, ctorError, apiUrl, headers>>

\* getBugTags(), up to its await of fetch
GetBugTags(c) ==
  /\ CanStart(c, "getBugTags")
  /\ calls' = [calls EXCEPT ![c] =
       Pending("getBugTags", NoInput,
         Request("GET", TagsUrl(variant, apiUrl),
                 JsonHeaders(variant, headers), NoBody, "fetch",
                 Credentials(variant)))]
  /\ UNCHANGED <<variant, status, options, ctorError, apiUrl, headers>>

Transport(call) == call.requests[1].transport

\* what the operation does with the response of its request
ResponseOutcome(v, op, response) ==
  CASE op = "submitBugReportWithFileProgress" -> FileProgressLoad(response)
    [] op = "submitBugReportWithProgress" /\ v = "v5" -> ProgressLoad(response)
    [] op = "getBugReport" \/ v = "v3" -> HandleResponse(response)
    [] OTHER -> ApiErrorResponse(response)

\* the transport delivers a response: fetch resolves and the operation
\* runs to its end, or the XMLHttpRequest fires load
Respond(c, st, body) ==
  /\ calls[c].phase = "pending"
  /\ calls' = [calls EXCEPT ![c] =
       Settle(@, [status |-> st, body |-> body],
              ResponseOutcome(variant, @.op, [status |-> st, body |-> body]))]
  /\ UNCHANGED <<variant, status, options, ctorError, apiUrl, headers>>

\* the error fetch rejects with: a TypeError whose message is the
\* runtime's; the operation does not catch it
FetchError(cause) == [type |-> "TypeError", message |-> cause]

\* every operation passing the transport's failure on as it came
FailureOutcomePassThrough(v, op, cause) == Rejected(FetchError(cause))

\* what the operation does when the transport fails without a response
FailureOutcome(v, op, cause) ==
  CASE op = "submitBugReportWithFileProgress" ->
         Rejected(Error("Network error occurred"))
    [] op = "submitBugReportWithProgress" /\ v = "v5" ->
         Rejected(Error("Network request failed"))
    [] OTHER -> Rejected(FetchError(cause))

\* the transport fails: fetch rejects, or the XMLHttpRequest fires error
NetworkFailure(c, cause) ==
  /\ calls[c].phase = "pending"
  /\ calls' = [calls EXCEPT ![c] =
       [Settle(@, NoResponse, FailureOutcome(variant, @.op, cause))
        EXCEPT !.cause = cause]]
  /\ UNCHANGED <<variant, status, options, ctorError, apiUrl, headers>>

\* the progress listener without its test of lengthComputable
UploadProgressUnguarded(c, ev) ==
  /\ calls[c].phase = "pending"
  /\ Transport(calls[c]) = "xhr"
  /\ Len(calls[c].events) < MaxProgress
  /\ ev.loaded >= calls[c].loaded
  /\ calls' = [calls EXCEPT ![c] =
       [@ EXCEPT !.loaded = ev.loaded,
                 !.events = Append(@, ev),
                 !.progress = Append(@, Percent(ev.loaded, ev.total))]]
  /\ UNCHANGED <<variant, status, options, ctorError, apiUrl, headers>>

\* xhr.upload fires progress
UploadProgress(c, ev) ==
  /\ calls[c].phase = "pending"
  /\ Transport(calls[c]) = "xhr"
  /\ Len(calls[c].events) < MaxProgress
  /\ ev.loaded >= calls[c].loaded
  /\ calls' = [calls EXCEPT ![c] =
       [@ EXCEPT !.loaded = ev.loaded,
                 !.events = Append(@, ev),
                 !.progress = IF ev.lengthComputable
                              THEN Append(@, Percent(ev.loaded, ev.total))
                              ELSE @]]
  /\ UNCHANGED <<variant, status, options, ctorError, apiUrl, headers>>

\* fetch reads the body stream: the one chunk holding the whole body goes
\* through the progress transform (v2, v4)
StreamTransform(c) ==
  /\ calls[c].phase = "pending"
  /\ Transport(calls[c]) = "fetch-stream"
  /\ calls[c].loaded < calls[c].total
  /\ calls' = [calls EXCEPT ![c] =
       [@ EXCEPT !.loaded = @ + calls[c].total,
                 !.progress = Append(@, Percent(calls[c].loaded + calls[c].total,
                                              calls[c].total))]]
  /\ UNCHANGED <<variant, status, options, ctorError, apiUrl, headers>>

\* the caller is done with the promise of a call
Release(c) ==
  /\ calls[c].phase \in {"resolved", "rejected", "hung"}
  /\ calls' = [calls EXCEPT ![c] = IdleCall]
  /\ UNCHANGED <<variant, status, options, ctorError, apiUrl, headers>>

Construct ==
  \E url \in UrlChoices, name \in NameChoices, key \in KeyChoices,
     secret \in SecretChoices, hs \in HeaderChoices :
    Constructor(OptionsOf(url, name, key, secret, hs))

CallSteps(c) ==
  \/ \E r \in Reports, now \in Times : SubmitBugReport(c, r, now)
  \/ \E r \in Reports, now \in Times : SubmitBugReportWithProgress(c, r, now)
  \/ \E r \in Reports : SubmitBugReportWithFile(c, r)
  \/ \E r \in Reports : SubmitBugReportWithFileProgress(c, r)
  \/ \E id \in Ids : GetBugReport(c, id)
  \/ GetBugTags(c)
  \/ \E st \in Statuses, body \in Bodies : Respond(c, st, body)
  \/ \E cause \in Causes : NetworkFailure(c, cause)
  \/ \E ev \in CompletionEvents : UploadProgress(c, ev)
  \/ StreamTransform(c)
  \/ Release(c)

\* one call at a time
Next == Construct \/ CallSteps(1)

Spec == Init /\ [][Next]_vars

(***************************************************************************)
(* Two calls in flight on one client.  An async operation runs to its      *)
(* first await in one step; between the steps of one call the steps of     *)
(* another may run.  The inputs are a part of those of Spec.               *)
(***************************************************************************)
ConcurrentOptions ==
  {OptionsOf("https://api.test.com", "TestApp", "test-key", "test-secret", hs) :
     hs \in {h \in HeaderChoices : ~h.given \/ "Content-Type" \in DOMAIN h.value}}

ConcurrentReports == {BaseReport, DatedReport, FileReport, InvalidReport}

ConcurrentBodies ==
  {JsonText(SuccessEnvelope), JsonText(ErrorEnvelope(404, "Bug report not found")),
   PlainText("<html>Service Unavailable</html>")}

ConcurrentSteps(c) ==
  \/ \E r \in ConcurrentReports, now \in Times : SubmitBugReport(c, r, now)
  \/ \E r \in ConcurrentReports : SubmitBugReportWithProgress(c, r, MaxTime)
  \/ \E r \in ConcurrentReports : SubmitBugReportWithFile(c, r)
  \/ \E r \in ConcurrentReports : SubmitBugReportWithFileProgress(c, r)
  \/ \E id \in Ids : GetBugReport(c, id)
  \/ GetBugTags(c)
  \/ \E st \in {200, 404}, body \in ConcurrentBodies : Respond(c, st, body)
  \/ NetworkFailure(c, "fetch failed")
  \/ \E ev \in CompletionEvents : UploadProgress(c, ev)
  \/ StreamTransform(c)
  \/ Release(c)

ConstructConcurrent == \E o \in ConcurrentOptions : Constructor(o)

NextConcurrent ==
  ConstructConcurrent \/ \E c \in CallIds : ConcurrentSteps(c)

SpecConcurrent == Init /\ [][NextConcurrent]_vars

(***************************************************************************)
(* The progress-tracked operations, one call at a time, under every        *)
(* sequence of upload progress events.                                     *)
(***************************************************************************)
ProgressSteps(c) ==
  \/ \E r \in ConcurrentReports : SubmitBugReportWithProgress(c, r, MaxTime)
  \/ \E r \in ConcurrentReports : SubmitBugReportWithFileProgress(c, r)
  \/ \E st \in {200, 404}, body \in ConcurrentBodies : Respond(c, st, body)
  \/ NetworkFailure(c, "fetch failed")
  \/ \E ev \in ProgressEvents : UploadProgress(c, ev)
  \/ StreamTransform(c)
  \/ Release(c)

NextProgress == ConstructConcurrent \/ ProgressSteps(1)

SpecProgress == Init /\ [][NextProgress]_vars

(***************************************************************************)
(* Properties.                                                             *)
(***************************************************************************)
SubmitOperations ==
  {"submitBugReport", "submitBugReportWithProgress", "submitBugReportWithFile",
   "submitBugReportWithFileProgress"}

FileOperations == {"submitBugReportWithFile", "submitBugReportWithFileProgress"}

\* the operations whose request has a JSON body or none
JsonOperations ==
  {"submitBugReport", "submitBugReportWithProgress", "getBugReport", "getBugTags"}

\* the transport has delivered a response to the call
Delivered(call) == call.response.status # 0

\* the custom headers the client was constructed with
CustomHeaders == OrElse(options, "headers", Empty)

\* C1: whenever the constructor was given options whose apiUrl, appKey or
\* appSecret is missing or empty, it threw: no base URL and no headers were
\* stored, and no call has issued a request.
C1_ConstructorRejectsMissingCredentials ==
  (status # "new"
   /\ (Falsy(options, "apiUrl") \/ Falsy(options, "appKey")
       \/ Falsy(options, "appSecret")))
  => /\ status = "threw"
     /\ ctorError # NoError
     /\ apiUrl = "" /\ headers = Empty
     /\ \A c \in CallIds : calls[c] = IdleCall

C1_Witness ==
  /\ status = "threw"
  /\ ~Falsy(options, "apiUrl") /\ ~Falsy(options, "appKey")
  /\ Has(options, "appSecret") /\ options.appSecret = ""

\* C2: when exactly one of appName, appKey, appSecret is the empty string
\* and the other options are valid, the constructor throws an error whose
\* message contains "App credentials".
C2_EmptyCredentialNamesAppCredentials ==
  (status # "new"
   /\ ~Falsy(options, "apiUrl")
   /\ \E k \in {"appName", "appKey", "appSecret"} :
        /\ Has(options, k) /\ options[k] = ""
        /\ \A j \in {"appName", "appKey", "appSecret"} \ {k} : ~Falsy(options, j))
  => /\ status = "threw"
     /\ Contains(ctorError.message, "App credentials")

\* the schema an operation validates its report with
SchemaOf(v, op, r) ==
  IF op \in FileOperations THEN BugReportFileSchema(r) ELSE BugReportSchema(v, r)

\* C3: a submit call whose report fails the operation's schema is rejected
\* with a message starting "Invalid bug report data", has issued no
\* request and has not invoked onProgress.
C3_InvalidReportRejectedBeforeRequest ==
  \A c \in CallIds :
    (calls[c].op \in SubmitOperations
     /\ SchemaOf(variant, calls[c].op, calls[c].input.report) # <<>>)
    => /\ calls[c].phase = "rejected"
       /\ StartsWith(calls[c].error.message, "Invalid bug report data")
       /\ calls[c].requests = <<>>
       /\ calls[c].progress = <<>>
       /\ ~Delivered(calls[c])

C3_Witness ==
  /\ calls[1].op = "submitBugReportWithFileProgress"
  /\ calls[1].input.report = BadFileReport
  /\ calls[1].phase = "rejected"

\* the body of the call's response is a JSON object with a meta field
HasMeta(call) ==
  call.response.body.json /\ Has(call.response.body.value, "meta")

MetaOf(call) == call.response.body.value.meta

TypedErrors == {"ApiBugReportError", "NotFoundBugReportError"}

\* C4 as claimed: in every operation a 404 response (here even one with a
\* well-formed error envelope) rejects with NotFoundBugReportError and
\* every other non-2xx response with ApiBugReportError.
C4_Every404IsNotFound ==
  \A c \in CallIds :
    (Delivered(calls[c]) /\ ~Ok(calls[c].response.status) /\ HasMeta(calls[c]))
    => /\ calls[c].phase = "rejected"
       /\ calls[c].error.type =
            IF calls[c].response.status = 404
            THEN "NotFoundBugReportError" ELSE "ApiBugReportError"

\* the operations that single out status 404: getBugReport everywhere, and
\* the fetch operations of v3, which share handleResponse
MapsNotFound(v, op) ==
  \/ op = "getBugReport"
  \/ v = "v3" /\ op \in {"submitBugReport", "submitBugReportWithFile", "getBugTags"}

\* C4 amended: a non-2xx response with an error envelope rejects with
\* NotFoundBugReportError when its status is 404 and the operation is
\* getBugReport or a fetch operation of v3, and with ApiBugReportError in
\* every other case (a 404 of submit, progress, file or tags included).
C4_NotFoundOnlyWhereMapped ==
  \A c \in CallIds :
    (Delivered(calls[c]) /\ ~Ok(calls[c].response.status) /\ HasMeta(calls[c]))
    => /\ calls[c].phase = "rejected"
       /\ calls[c].error.type =
            IF calls[c].response.status = 404
               /\ MapsNotFound(variant, calls[c].op)
            THEN "NotFoundBugReportError" ELSE "ApiBugReportError"

C4_Witness ==
  /\ calls[1].op = "submitBugReport"
  /\ calls[1].response.status = 404
  /\ HasMeta(calls[1])
  /\ calls[1].error.type = "ApiBugReportError"

\* C5: a call rejected with a typed client error got a non-2xx response
\* with a meta object, and a non-2xx response with a meta object rejects
\* with the message "API Error [<code>]: <message>" or
\* "Not Found Error [<code>]: <message>" built from that meta.
C5_ErrorCarriesServerMeta ==
  \A c \in CallIds :
    /\ calls[c].error.type \in TypedErrors
       => Delivered(calls[c]) /\ ~Ok(calls[c].response.status) /\ HasMeta(calls[c])
    /\ (Delivered(calls[c]) /\ ~Ok(calls[c].response.status) /\ HasMeta(calls[c]))
       => /\ calls[c].error.type \in TypedErrors
          /\ calls[c].error.message =
               (IF calls[c].error.type = "NotFoundBugReportError"
                THEN "Not Found Error [" ELSE "API Error [")
               \o ToString(MetaOf(calls[c]).code) \o "]: "
               \o MetaOf(calls[c]).message

C5_Witness ==
  /\ calls[1].op = "getBugReport"
  /\ calls[1].response.status = 500
  /\ calls[1].error.message = "API Error [500]: Internal Server Error"

\* C6: every non-2xx response, whatever its body, rejects the call with
\* an ApiBugReportError or a NotFoundBugReportError.
C6_NonOkAlwaysTypedError ==
  \A c \in CallIds :
    (Delivered(calls[c]) /\ ~Ok(calls[c].response.status))
    => /\ calls[c].phase = "rejected"
       /\ calls[c].error.type \in TypedErrors

\* C7: a 2xx response with a JSON body resolves the call with exactly the
\* value of that body.
C7_OkBodyPassedThrough ==
  \A c \in CallIds :
    (Delivered(calls[c]) /\ Ok(calls[c].response.status)
     /\ calls[c].response.body.json)
    => /\ calls[c].phase = "resolved"
       /\ calls[c].value = calls[c].response.body.value
       /\ calls[c].error = NoError

C7_Witness ==
  /\ calls[1].op = "getBugTags"
  /\ calls[1].phase = "resolved"
  /\ calls[1].response.status = 299
  /\ calls[1].value = SuccessEnvelope

\* C8: submitBugReport posts to <apiUrl>/bugs/reports, getBugReport(id)
\* gets <apiUrl>/bugs/<id> and getBugTags gets <apiUrl>/bugs/tags.
C8_FixedPathsUnderBaseUrl ==
  \A c \in CallIds : \A i \in 1..Len(calls[c].requests) :
    /\ calls[c].op = "submitBugReport"
       => /\ calls[c].requests[i].method = "POST"
          /\ calls[c].requests[i].url = options.apiUrl \o "/bugs/reports"
    /\ calls[c].op = "getBugReport"
       => /\ calls[c].requests[i].method = "GET"
          /\ calls[c].requests[i].url =
               options.apiUrl \o "/bugs/" \o calls[c].input.id
    /\ calls[c].op = "getBugTags"
       => /\ calls[c].requests[i].method = "GET"
          /\ calls[c].requests[i].url = options.apiUrl \o "/bugs/tags"

\* C9: on a client constructed without custom headers, every request of
\* submitBugReport, getBugReport and getBugTags carries exactly
\* Content-Type, X-App-Name, X-App-Key and Authorization.
C9_ExactDefaultHeaders ==
  ~Has(options, "headers") =>
    \A c \in CallIds : \A i \in 1..Len(calls[c].requests) :
      calls[c].op \in {"submitBugReport", "getBugReport", "getBugTags"}
      => calls[c].requests[i].headers =
           [k \in {"Content-Type", "X-App-Name", "X-App-Key", "Authorization"} |->
              CASE k = "Content-Type" -> "application/json"
                [] k = "X-App-Name" -> OrElse(options, "appName", "undefined")
                [] k = "X-App-Key" -> options.appKey
                [] OTHER -> "Bearer " \o options.appSecret]

SendsStoredContentType(v, op) ==
  \/ v \in {"v1", "v2"}
  \/ v = "v3" /\ op \in JsonOperations
  \/ v = "v5" /\ op \in FileOperations

SuppliedFields(r) ==
  [k \in DOMAIN r \ {"createdAt"} |->
     CASE k = "tags" -> [kind |-> "array", items |-> r.tags]
       [] k = "file" -> [kind |-> "array", items |-> r.file]
       [] k = "metadata" -> [kind |-> "object", fields |-> r.metadata]
       [] OTHER -> [kind |-> "string", text |-> r[k]]]

\* the report holds values JSON can carry: its file items, if it has any,
\* are strings (BugReport.file is a list of strings)
JsonValued(r) ==
  Has(r, "file") => \A i \in 1..Len(r.file) : r.file[i].kind = "string"

\* C11: the body of every submitBugReport request is JSON holding every
\* field of the report the caller supplied with the value it had, plus
\* createdAt, which is the report's createdAt when it has one and the time
\* of the request otherwise; it holds nothing else.  Stated for reports
\* whose values JSON can carry.
C11_BodyIsReportPlusCreatedAt ==
  \A c \in CallIds : \A i \in 1..Len(calls[c].requests) :
    (calls[c].op = "submitBugReport" /\ JsonValued(calls[c].input.report))
    => /\ calls[c].requests[i].body.kind = "json"
       /\ DOMAIN calls[c].requests[i].body.value
            = DOMAIN calls[c].input.report \cup {"createdAt"}
       /\ \A k \in DOMAIN calls[c].input.report \ {"createdAt"} :
            calls[c].requests[i].body.value[k]
              = SuppliedFields(calls[c].input.report)[k]
       /\ calls[c].requests[i].body.value["createdAt"].text =
            ToISOString(IF Has(calls[c].input.report, "createdAt")
                        THEN calls[c].input.report.createdAt
                        ELSE calls[c].now)

C11_Witness ==
  /\ calls[1].op = "submitBugReport"
  /\ calls[1].input.report = ImageReport
  /\ calls[1].now = MaxTime
  /\ calls[1].requests # <<>>
  /\ calls[1].requests[1].body.value["image"].text = "base64-encoded-image"
  /\ calls[1].requests[1].body.value["createdAt"].text = ToISOString(MaxTime)

\* C12: no operation changes the client's configuration: at every moment
\* after construction the stored base URL and the stored headers are the
\* ones the constructor set, and every request of submitBugReport,
\* getBugReport and getBugTags carries the headers it would carry on a
\* fresh client.
C12_ConfigurationNeverChanges ==
  status = "ok" =>
    /\ apiUrl = options.apiUrl
    /\ headers = ConstructorHeaders(variant, options)
    /\ \A c \in CallIds : \A i \in 1..Len(calls[c].requests) :
         calls[c].op \in {"submitBugReport", "getBugReport", "getBugTags"}
         => calls[c].requests[i].headers
              = JsonHeaders(variant, ConstructorHeaders(variant, options))

\* the transport of the call failed without delivering a response
NetworkFailed(call) == call.cause # ""

\* the messages of the errors the client itself makes for a network failure
NetworkMessages == {"Network request failed", "Network error occurred"}

\* C13 as claimed: in every operation a network failure rejects the call
\* with a generic Error whose message is one of the client's fixed strings,
\* whatever the transport reported.
C13_NetworkFailureFixedMessage ==
  \A c \in CallIds :
    NetworkFailed(calls[c])
    => /\ calls[c].phase = "rejected"
       /\ calls[c].error.type = "Error"
       /\ calls[c].error.message \in NetworkMessages

\* the operations that run on an XMLHttpRequest
UsesXhr(v, op) ==
  \/ op = "submitBugReportWithFileProgress"
  \/ v = "v5" /\ op = "submitBugReportWithProgress"

\* C13 amended: a network failure rejects an XMLHttpRequest operation with
\* a generic Error whose message is fixed ("Network error occurred" for
\* submitBugReportWithFileProgress, "Network request failed" for
\* submitBugReportWithProgress); a fetch operation rejects with the error
\* fetch rejected with, unchanged, and issues nothing more.
C13_NetworkFailureFixedOnlyForXhr ==
  \A c \in CallIds :
    NetworkFailed(calls[c])
    => /\ calls[c].phase = "rejected"
       /\ ~Delivered(calls[c])
       /\ calls[c].value = Empty
       /\ calls[c].error =
            IF UsesXhr(variant, calls[c].op)
            THEN Error(IF calls[c].op = "submitBugReportWithFileProgress"
                       THEN "Network error occurred"
                       ELSE "Network request failed")
            ELSE FetchError(calls[c].cause)

C13_Witness ==
  /\ variant = "v5"
  /\ calls[1].op = "submitBugReportWithProgress"
  /\ calls[1].cause = "fetch failed"
  /\ calls[1].error.message = "Network request failed"

\* C14: the body of every multipart request is a form whose entries are,
\* in this order, title, description, severity, tags (the JSON text of the
\* tag list) and one entry named file for each file of the report, in the
\* report's order; it has no other entry.
C14_FormHasExactlyTheReportFields ==
  \A c \in CallIds : \A i \in 1..Len(calls[c].requests) :
    calls[c].op \in FileOperations
    => /\ calls[c].requests[i].method = "POST"
       /\ calls[c].requests[i].body.kind = "form"
       /\ Len(calls[c].requests[i].body.entries)
            = 4 + Len(calls[c].input.report.file)
       /\ calls[c].requests[i].body.entries[1] =
            [name |-> "title",
             value |-> [kind |-> "string", text |-> calls[c].input.report.title]]
       /\ calls[c].requests[i].body.entries[2] =
            [name |-> "description",
             value |-> [kind |-> "string",
                        text |-> calls[c].input.report.description]]
       /\ calls[c].requests[i].body.entries[3] =
            [name |-> "severity",
             value |-> [kind |-> "string",
                        text |-> calls[c].input.report.severity]]
       /\ calls[c].requests[i].body.entries[4] =
            [name |-> "tags",
             value |-> [kind |-> "json", items |-> calls[c].input.report.tags]]
       /\ \A j \in 1..Len(calls[c].input.report.file) :
            calls[c].requests[i].body.entries[4 + j] =
              [name |-> "file", value |-> calls[c].input.report.file[j]]

C14_Witness ==
  /\ calls[1].op = "submitBugReportWithFile"
  /\ calls[1].input.report = DatedFileReport
  /\ calls[1].requests # <<>>
  /\ Len(calls[1].requests[1].body.entries) = 6
  /\ calls[1].requests[1].body.entries[5].value = PngFile
  /\ calls[1].requests[1].body.entries[6].value = JpegFile

\* the call was rejected by the validation of its report
RejectedAsInvalid(call) ==
  /\ call.phase = "rejected"
  /\ call.requests = <<>>
  /\ StartsWith(call.error.message, "Invalid bug report data")

\* the four rules every schema shares
FourRules(r) ==
  /\ Has(r, "title") /\ Len(r.title) \in 1..200
  /\ Has(r, "description") /\ r.description # ""
  /\ Has(r, "severity") /\ r.severity \in {"LOW", "MEDIUM", "HIGH", "CRITICAL"}
  /\ Has(r, "tags")
  /\ \A i \in 1..Len(r.tags) :
       r.tags[i] \in {"UI", "FUNCTIONALITY", "PERFORMANCE", "SECURITY", "CRASH",
                      "NETWORK", "DATABASE", "OTHER"}

\* the report holds a file whose type is not an allowed image type
HasBadFile(r) ==
  /\ Has(r, "file")
  /\ \E i \in 1..Len(r.file) :
       /\ r.file[i].kind = "File"
       /\ r.file[i].type \notin {"image/png", "image/jpeg", "image/jpg"}

FurtherRules(v, op, r) ==
  /\ v \in {"v1", "v2"} => Len(r.tags) >= 1
  /\ (v \notin {"v1", "v2"} /\ op \notin FileOperations /\ Has(r, "file"))
     => \A i \in 1..Len(r.file) : r.file[i].kind = "string"
  /\ op \in FileOperations
     => /\ Has(r, "file")
        /\ \A i \in 1..Len(r.file) : r.file[i].kind = "File"
        /\ ~HasBadFile(r)

OwnRequest(call, request) ==
  CASE call.op = "getBugReport" ->
         /\ request.method = "GET"
         /\ request.url = BugUrl(variant, apiUrl, call.input.id)
         /\ request.body = NoBody
    [] call.op = "getBugTags" ->
         /\ request.method = "GET"
         /\ request.url = TagsUrl(variant, apiUrl)
         /\ request.body = NoBody
    [] call.op \in FileOperations ->
         /\ request.method = "POST"
         /\ request.url = ReportsUrl(variant, apiUrl)
         /\ request.body = FormBody(call.input.report)
    [] OTHER ->
         /\ request.method = "POST"
         /\ request.url = ReportsUrl(variant, apiUrl)
         /\ request.body = JsonBody(call.input.report, call.now)

\* C16: a call with valid input has issued exactly one request, its own,
\* from its start on: while it is pending, after a 2xx or a non-2xx
\* response and after a network failure, whatever another call in flight
\* on the same client does.
C16_ExactlyOneRequestPerCall ==
  \A c \in CallIds :
    (calls[c].op # "none" /\ ~RejectedAsInvalid(calls[c]))
    => /\ Len(calls[c].requests) = 1
       /\ OwnRequest(calls[c], calls[c].requests[1])

C16_Witness ==
  /\ calls[1].op = "getBugReport"
  /\ calls[1].input.id = "123"
  /\ calls[1].phase = "rejected"
  /\ calls[1].response.status = 404
  /\ Len(calls[1].requests) = 1
  /\ calls[2].op = "getBugReport"
  /\ calls[2].input.id = "tags"
  /\ calls[2].phase = "rejected"
  /\ NetworkFailed(calls[2])
  /\ Len(calls[2].requests) = 1

Settled(call) == call.phase \in {"resolved", "rejected", "hung"}

\* call c is a submitBugReport and call d a submitBugReportWithProgress of
\* the same report at the same time
SamePair(c, d) ==
  /\ calls[c].op = "submitBugReport"
  /\ calls[d].op = "submitBugReportWithProgress"
  /\ calls[c].input = calls[d].input
  /\ calls[c].now = calls[d].now

\* both calls are settled and got the same response, or the same failure
SameStimulus(c, d) ==
  /\ Settled(calls[c]) /\ Settled(calls[d])
  /\ calls[c].response = calls[d].response
  /\ calls[c].cause = calls[d].cause

SameOutcome(c, d) ==
  /\ calls[c].phase = calls[d].phase
  /\ calls[c].value = calls[d].value
  /\ calls[c].error = calls[d].error

WellFormed(response) ==
  /\ response.status # 0
  /\ response.body.json
  /\ Ok(response.status) \/ Has(response.body.value, "meta")

ComputableEvents(call) == SelectSeq(call.events, LAMBDA e : e.lengthComputable)

\* C18: in the XMLHttpRequest-based submit operations the values passed to
\* onProgress are, in order, loaded / total * 100 of the progress events
\* whose length is computable, one value for each such event and none for
\* the others; and once the promise is settled onProgress is not invoked
\* for that call any more.
C18_OneProgressValuePerComputableEvent ==
  /\ [](\A c \in CallIds :
          UsesXhr(variant, calls[c].op)
          => /\ Len(calls[c].progress) = Len(ComputableEvents(calls[c]))
             /\ \A i \in 1..Len(calls[c].progress) :
                  /\ calls[c].progress[i].kind = "number"
                  /\ calls[c].progress[i].num * ComputableEvents(calls[c])[i].total
                       = ComputableEvents(calls[c])[i].loaded * 100
                         * calls[c].progress[i].den)
  /\ [][\A c \in CallIds :
          (Settled(calls[c]) /\ calls'[c].op # "none")
          => calls'[c].progress = calls[c].progress]_vars

C18_Witness ==
  /\ calls[1].op = "submitBugReportWithFileProgress"
  /\ Len(calls[1].events) = 2
  /\ ~calls[1].events[1].lengthComputable
  /\ calls[1].events[2].lengthComputable
  /\ calls[1].events[2].loaded = 1
  /\ calls[1].progress = <<Percent(1, MaxBytes)>>
  /\ calls[1].phase = "resolved"

\* the whole body of the call has been passed to the transport, as far as
\* the operation is told: the stream transform has seen every byte, or a
\* progress event with a computable length reported loaded = total
WholeBodySent(call) ==
  IF Transport(call) = "xhr"
  THEN \E i \in 1..Len(call.events) :
         /\ call.events[i].lengthComputable
         /\ call.events[i].loaded = call.events[i].total
  ELSE call.loaded = call.total

\* C19: every value submitBugReportWithProgress passes to onProgress is a
\* number from 0 to 100, the values of one call never decrease, and once
\* the whole body has been passed to the transport the last value is 100.
C19_ProgressWithinBoundsAndMonotone ==
  \A c \in CallIds :
    (calls[c].op = "submitBugReportWithProgress" /\ calls[c].requests # <<>>)
    => /\ \A i \in 1..Len(calls[c].progress) :
            /\ calls[c].progress[i].kind = "number"
            /\ calls[c].progress[i].den > 0
            /\ calls[c].progress[i].num >= 0
            /\ calls[c].progress[i].num <= 100 * calls[c].progress[i].den
       /\ \A i, j \in 1..Len(calls[c].progress) :
            i < j => calls[c].progress[i].num * calls[c].progress[j].den
                     <= calls[c].progress[j].num * calls[c].progress[i].den
       /\ WholeBodySent(calls[c])
          => /\ calls[c].progress # <<>>
             /\ calls[c].progress[Len(calls[c].progress)].num
                  = 100 * calls[c].progress[Len(calls[c].progress)].den

C19_Witness ==
  /\ variant = "v5"
  /\ calls[1].op = "submitBugReportWithProgress"
  /\ Len(calls[1].progress) = 2
  /\ calls[1].progress[1].num * 2 = 100 * calls[1].progress[1].den
  /\ calls[1].progress[2].num = 100 * calls[1].progress[2].den
  /\ WholeBodySent(calls[1])

\* C20: in the XMLHttpRequest-based submit operations a non-2xx response
\* whose body is not JSON or has no meta field rejects the call with a
\* generic Error whose message names the status: "Upload failed with
\* status <status>" for submitBugReportWithFileProgress, "Server returned
\* status <status>" for submitBugReportWithProgress.
C20_XhrMalformedErrorNamesStatus ==
  \A c \in CallIds :
    (/\ UsesXhr(variant, calls[c].op)
     /\ Delivered(calls[c])
     /\ ~Ok(calls[c].response.status)
     /\ ~HasMeta(calls[c]))
    => /\ calls[c].phase = "rejected"
       /\ calls[c].error.type = "Error"
       /\ calls[c].error.message =
            (IF calls[c].op = "submitBugReportWithFileProgress"
             THEN "Upload failed with status "
             ELSE "Server returned status ")
            \o ToString(calls[c].response.status)

C20_Witness ==
  /\ calls[1].op = "submitBugReportWithFileProgress"
  /\ calls[1].response.status = 500
  /\ calls[1].response.body = JsonText([error |-> "Bad Gateway"])
  /\ calls[1].error = Error("Upload failed with status 500")

\* C21: every multipart request carries every stored header of the client
\* but Content-Type, and carries no Content-Type header at all: the
\* operation leaves that header to the transport.
C21_FormRequestHasNoContentType ==
  \A c \in CallIds : \A i \in 1..Len(calls[c].requests) :
    calls[c].op \in FileOperations
    => /\ ~Has(calls[c].requests[i].headers, "Content-Type")
       /\ \A k \in DOMAIN ConstructorHeaders(variant, options) \ {"Content-Type"} :
            /\ Has(calls[c].requests[i].headers, k)
            /\ calls[c].requests[i].headers[k]
                 = ConstructorHeaders(variant, options)[k]

\* C22: every request of every operation, whatever calls went before it,
\* carries X-App-Key with the configured appKey and Authorization with
\* "Bearer " and the configured appSecret, each of the two unless the
\* custom headers define that name.
C22_EveryRequestCarriesCredentials ==
  \A c \in CallIds : \A i \in 1..Len(calls[c].requests) :
    /\ ~Has(CustomHeaders, "X-App-Key")
       => /\ Has(calls[c].requests[i].headers, "X-App-Key")
          /\ calls[c].requests[i].headers["X-App-Key"] = options.appKey
    /\ ~Has(CustomHeaders, "Authorization")
       => /\ Has(calls[c].requests[i].headers, "Authorization")
          /\ calls[c].requests[i].headers["Authorization"]
               = "Bearer " \o options.appSecret

C22_Witness ==
  /\ variant = "v4"
  /\ status = "ok"
  /\ calls[1].op = "getBugTags"
  /\ Len(calls[1].requests) = 1
  /\ headers # ConstructorHeaders(variant, options)
  /\ calls[1].requests[1].headers["X-App-Key"] = "test-key"
  /\ calls[1].requests[1].headers["Authorization"] = "Bearer test-secret"

\* C23: a call to which the transport has delivered a response, of any
\* status and any body, or a network failure, has its promise resolved or
\* rejected: no delivery leaves the promise pending.
C23_EveryDeliverySettles ==
  \A c \in CallIds :
    (Delivered(calls[c]) \/ NetworkFailed(calls[c]))
    => calls[c].phase \in {"resolved", "rejected"}

\* C24: the promise of an XMLHttpRequest-based submit operation is settled
\* at most once, whatever progress, load and error events the transport
\* fires: over the whole call resolve and reject are invoked at most once
\* together, never both, and the state of the promise is the one that single
\* invocation gave it.
C24_XhrPromiseSettlesAtMostOnce ==
  \A c \in CallIds :
    UsesXhr(variant, calls[c].op)
    => /\ calls[c].resolves + calls[c].rejects <= 1
       /\ calls[c].phase = "resolved" <=> calls[c].resolves = 1
       /\ calls[c].phase = "rejected" <=> calls[c].rejects = 1

C24_Witness ==
  /\ variant = "v5"
  /\ calls[1].op = "submitBugReportWithProgress"
  /\ Len(calls[1].events) = MaxProgress
  /\ Delivered(calls[1])
  /\ calls[1].phase = "resolved"
  /\ calls[1].resolves = 1
  /\ calls[1].rejects = 0

\* the headers an operation sends when it is the only call made on the
\* client since its construction
HeadersAlone(op) ==
  CASE op = "submitBugReportWithFile" ->
         FileHeaders(variant, ConstructorHeaders(variant, options))
    [] op = "submitBugReportWithFileProgress" ->
         FileProgressHeaders(variant, ConstructorHeaders(variant, options))
    [] OTHER -> JsonHeaders(variant, ConstructorHeaders(variant, options))

\* the outcome a call has alone for the response or the failure it got
OutcomeAlone(call) ==
  IF NetworkFailed(call)
  THEN FailureOutcome(variant, call.op, call.cause)
  ELSE ResponseOutcome(variant, call.op, call.response)

\* C25: calls in flight together on one client do not interfere: each sends
\* the request (URL, method, headers, body) it would send alone, and once
\* its own response or failure has come it is settled with the outcome of
\* that response, whatever the other call sent or received.
C25_ConcurrentCallsIndependent ==
  \A c \in CallIds :
    /\ \A i \in 1..Len(calls[c].requests) :
         /\ OwnRequest(calls[c], calls[c].requests[i])
         /\ calls[c].requests[i].headers = HeadersAlone(calls[c].op)
    /\ (Delivered(calls[c]) \/ NetworkFailed(calls[c]))
       => /\ calls[c].phase = OutcomeAlone(calls[c]).phase
          /\ calls[c].value = OutcomeAlone(calls[c]).value
          /\ calls[c].error = OutcomeAlone(calls[c]).error

\* C26: for every id, the URL getBugReport requests differs from the URL of
\* getBugTags and from the URL the submit operations post to.
C26_BugUrlDistinctFromFixedEndpoints ==
  \A c \in CallIds : \A i \in 1..Len(calls[c].requests) :
    calls[c].op = "getBugReport"
    => /\ calls[c].requests[i].url # TagsUrl(variant, apiUrl)
       /\ calls[c].requests[i].url # ReportsUrl(variant, apiUrl)

====
